---- MODULE Spec2Model ----
(***************************************************************************)
(* cinemai: the conversation driver (src/cinemai.py, main), the session    *)
(* store (get_session_history over _SESSION_STORE) and the response        *)
(* handlers (src/utils/response_handler.py).                               *)
(*                                                                         *)
(* A Python str is a sequence of fragments.  Text produced by the          *)
(* environment that the program indexes or slices (the classification      *)
(* output) is one character per fragment; a literal of the source is one   *)
(* fragment.  Python index i is TLA+ index i + 1.                          *)
(***************************************************************************)
EXTENDS Integers, Sequences, FiniteSets, TLC

\* ------------------------------------------------------------------ bounds
MaxTurns == 2        \* turns the driver loop is followed for
MaxTailLen == 3      \* characters a classification output has after its first
MaxAppends == 2      \* messages a client of the session store appends per id

\* ------------------------------------------------------------------ inputs
Heads == {"Q", "M", "F", "I", "x", " "}
TailText == <<" ", "x", " ", "y", "z", "w">>
Tails == {SubSeq(TailText, 1, n) : n \in 1..MaxTailLen}
MatrixOutput == <<"Q", " ", " ", "T", "h", "e", " ", "M", "a", "t", "r", "i", "x">>
ClassificationOutputs ==
    {<<>>, MatrixOutput} \cup {<<h>> : h \in Heads}
        \cup {<<h>> \o t : h \in {"Q", "x"}, t \in Tails}
Queries == {<<"who directed it?">>, <<"hi">>}
Answers == {<<"answer">>}
DbResults == {<<"The Wachowskis">>}
SessionIds == {<<"a1B2c3">>, <<"Zz99yX">>}

\* ------------------------------------------------- utils/response_handler.py
ResponseTypes == [Q |-> "QUERY", M |-> "MEMORY", F |-> "FEEDBACK", I |-> "INVALID"]

\* ResponseTypes(value): the member with that value, ValueError when none has it
ResponseTypesCall(value) ==
    IF value \in DOMAIN ResponseTypes
    THEN [raised |-> "none", type |-> ResponseTypes[value]]
    ELSE [raised |-> "ValueError", type |-> "none"]

create_response_handler(type_) ==
    IF type_ = ResponseTypes.Q THEN "QueryResponseHandler"
    ELSE IF type_ = ResponseTypes.M THEN "MemoryResponseHandler"
    ELSE IF type_ = ResponseTypes.F THEN "FeedbackResponseHandler"
    ELSE IF type_ = ResponseTypes.I THEN "InvalidResponseHandler"
    ELSE "InvalidResponseHandler"

\* handler.type_, set by each subclass's __init__
HandlerType(handler) ==
    CASE handler = "QueryResponseHandler" -> ResponseTypes.Q
      [] handler = "MemoryResponseHandler" -> ResponseTypes.M
      [] handler = "FeedbackResponseHandler" -> ResponseTypes.F
      [] handler = "InvalidResponseHandler" -> ResponseTypes.I

QueryContext(db) == <<"Context: database response was ">> \o db.result
MemoryContext == <<"Context: respond using memory history.">>
FeedbackContext == <<"Context: user provided feedback.">>
InvalidContext == <<"Context: user provided invalid query.">>

get_context_FeedbackAsMemory(handler, args) ==
    CASE handler = "QueryResponseHandler" -> QueryContext(args[1])
      [] handler = "MemoryResponseHandler" -> MemoryContext
      [] handler = "FeedbackResponseHandler" -> MemoryContext
      [] handler = "InvalidResponseHandler" -> InvalidContext

\* handler.get_context(*args)
get_context(handler, args) ==
    CASE handler = "QueryResponseHandler" -> QueryContext(args[1])
      [] handler = "MemoryResponseHandler" -> MemoryContext
      [] handler = "FeedbackResponseHandler" -> FeedbackContext
      [] handler = "InvalidResponseHandler" -> InvalidContext

\* ------------------------------------------------------------- cinemai.py
Apology == <<"I'm sorry, I couldn't find any results.">>
ClassifyPrefix == <<"Classify query:">>
Instruction ==
    <<"Using the context, respond to following query (remember to incorporate any and all past feedback):">>

NoHandler == "unset"
NoFile == [name |-> <<>>, data |-> <<>>, written |-> FALSE]

Human(text) == [type |-> "human", content |-> text]
AI(text) == [type |-> "ai", content |-> text]

VARIABLES
    pc,                   \* position of main
    dump_memory_on_exit,  \* the --dump-memory-on-exit flag
    session_id,           \* generate_session_id()
    store,                \* _SESSION_STORE: session id -> ChatMessageHistory object
    heap,                 \* the ChatMessageHistory objects: heap[h] is object h's messages
    user_query, classification, response_handler, db_response, context,
    backend_calls,        \* cypher_chain.invoke calls of the current turn
    backend_arg,          \* argument of the last cypher_chain.invoke
    db_raised,            \* the backend call of the current turn raised
    error,                \* exception that left main, "none" when none did
    printed,              \* the farewell was printed
    file,                 \* memory-<session_id>.json
    turns,                \* completed turns
    held, log             \* a client of get_session_history: the object it was
                          \* first given per id, and what it appended through it

vars == <<pc, dump_memory_on_exit, session_id, store, heap, user_query,
          classification, response_handler, db_response, context, backend_calls,
          backend_arg, db_raised, error, printed, file, turns, held, log>>

turnVars == <<user_query, classification, response_handler, db_response, context,
              backend_calls, backend_arg, db_raised>>
exitVars == <<error, printed, file>>
clientVars == <<held, log>>

get_session_history_AlwaysNew(st, hp, sid) ==
    [store |-> (sid :> Len(hp) + 1) @@ st, heap |-> Append(hp, <<>>),
     ret |-> Len(hp) + 1]

\* get_session_history(session_id): the store and heap after the call and the
\* object returned
get_session_history(st, hp, sid) ==
    IF sid \notin DOMAIN st
    THEN [store |-> st @@ (sid :> Len(hp) + 1), heap |-> Append(hp, <<>>),
          ret |-> Len(hp) + 1]
    ELSE [store |-> st, heap |-> hp, ret |-> st[sid]]

InvokeWithHistory_OutputOnly(st, hp, sid, question, answer) ==
    LET g == get_session_history(st, hp, sid)
    IN [store |-> g.store, heap |-> [g.heap EXCEPT ![g.ret] = @ \o <<AI(answer)>>]]

\* chain_with_history.invoke({"question": question}, config): the history of the
\* configured session is fetched, the model answers, and the input and output
\* messages are added to that history
InvokeWithHistory(st, hp, sid, question, answer) ==
    LET g == get_session_history(st, hp, sid)
    IN [store |-> g.store,
        heap |-> [g.heap EXCEPT ![g.ret] = @ \o <<Human(question), AI(answer)>>]]

SelectHandler_NoExcept(content) ==
    IF Len(content) = 0
    THEN [raised |-> "IndexError", handler |-> NoHandler]
    ELSE LET t == ResponseTypesCall(content[1])
         IN IF t.raised = "ValueError"
            THEN [raised |-> "ValueError", handler |-> NoHandler]
            ELSE [raised |-> "none", handler |-> create_response_handler(t.type)]

\* lines 234-242: the handler for a classification output
SelectHandler(content) ==
    IF Len(content) = 0
    THEN [raised |-> "IndexError", handler |-> NoHandler]
    ELSE LET t == ResponseTypesCall(content[1])
         IN IF t.raised = "ValueError"
            THEN [raised |-> "none",
                  handler |-> create_response_handler(ResponseTypes.I)]
            ELSE [raised |-> "none", handler |-> create_response_handler(t.type)]

AdditionalInfo_FromIndex2(content) ==
    IF Len(content) > 3 THEN SubSeq(content, 3, Len(content)) ELSE <<>>

\* line 247
AdditionalInfo(content) ==
    IF Len(content) > 3 THEN SubSeq(content, 4, Len(content)) ELSE <<>>

BackendQuestion_NoSeparator(content, query) == AdditionalInfo(content) \o query

\* line 248: the question the graph chain is invoked with
BackendQuestion(content, query) == AdditionalInfo(content) \o <<" ">> \o query

DbResponse_ErrorText(outcome) ==
    IF outcome.raised THEN [result |-> <<"Exception">>] ELSE [result |-> outcome.result]

\* lines 245-250: the db_response for a backend outcome
DbResponse(outcome) ==
    IF outcome.raised THEN [result |-> Apology] ELSE [result |-> outcome.result]

BackendOutcomes ==
    {[raised |-> TRUE, result |-> <<>>]} \cup
    {[raised |-> FALSE, result |-> r] : r \in DbResults}

FinalQuestion_NoContext(ctx, query) == Instruction \o query

\* lines 258-260: the question of the final model call
FinalQuestion(ctx, query) == ctx \o Instruction \o query

Init ==
    /\ pc = "prompt"
    /\ dump_memory_on_exit \in BOOLEAN
    /\ session_id \in SessionIds
    /\ store = <<>>
    /\ heap = <<>>
    /\ user_query = <<>>
    /\ classification = <<>>
    /\ response_handler = NoHandler
    /\ db_response = [result |-> <<>>]
    /\ context = <<>>
    /\ backend_calls = 0
    /\ backend_arg = <<>>
    /\ db_raised = FALSE
    /\ error = "none"
    /\ printed = FALSE
    /\ file = NoFile
    /\ turns = 0
    /\ held = [s \in SessionIds |-> 0]
    /\ log = [s \in SessionIds |-> <<>>]

\* line 229
ReadQuery(q) ==
    /\ pc = "prompt"
    /\ turns < MaxTurns
    /\ user_query' = q
    /\ backend_calls' = 0
    /\ db_raised' = FALSE
    /\ pc' = "classify"
    /\ UNCHANGED <<dump_memory_on_exit, session_id, store, heap, classification,
                   response_handler, db_response, context, backend_arg, turns>>
    /\ UNCHANGED exitVars
    /\ UNCHANGED clientVars

\* lines 230-232
Classify(c) ==
    /\ pc = "classify"
    /\ LET r == InvokeWithHistory(store, heap, session_id,
                                  ClassifyPrefix \o user_query, c)
       IN /\ store' = r.store
          /\ heap' = r.heap
    /\ classification' = c
    /\ pc' = "dispatch"
    /\ UNCHANGED <<dump_memory_on_exit, session_id, user_query, response_handler,
                   db_response, context, backend_calls, backend_arg, db_raised,
                   turns>>
    /\ UNCHANGED exitVars
    /\ UNCHANGED clientVars

\* lines 234-242
Dispatch ==
    /\ pc = "dispatch"
    /\ LET s == SelectHandler(classification)
       IN IF s.raised = "none"
          THEN /\ response_handler' = s.handler
               /\ pc' = "context"
               /\ error' = error
          ELSE /\ response_handler' = response_handler
               /\ pc' = "crashed"
               /\ error' = s.raised
    /\ UNCHANGED <<dump_memory_on_exit, session_id, store, heap, user_query,
                   classification, db_response, context, backend_calls,
                   backend_arg, db_raised, turns, printed, file>>
    /\ UNCHANGED clientVars

\* lines 244-252: the Query branch, with the outcome of cypher_chain.invoke
QueryBranch(outcome) ==
    /\ pc = "context"
    /\ HandlerType(response_handler) = ResponseTypes.Q
    /\ backend_calls' = backend_calls + 1
    /\ backend_arg' = BackendQuestion(classification, user_query)
    /\ db_raised' = outcome.raised
    /\ db_response' = DbResponse(outcome)
    /\ context' = get_context(response_handler, <<DbResponse(outcome)>>)
    /\ pc' = "respond"
    /\ UNCHANGED <<dump_memory_on_exit, session_id, store, heap, user_query,
                   classification, response_handler, turns>>
    /\ UNCHANGED exitVars
    /\ UNCHANGED clientVars

\* lines 253-254: every other handler
OtherBranch ==
    /\ pc = "context"
    /\ HandlerType(response_handler) # ResponseTypes.Q
    /\ context' = get_context(response_handler, <<>>)
    /\ pc' = "respond"
    /\ UNCHANGED <<dump_memory_on_exit, session_id, store, heap, user_query,
                   classification, response_handler, db_response, backend_calls,
                   backend_arg, db_raised, turns>>
    /\ UNCHANGED exitVars
    /\ UNCHANGED clientVars

\* lines 256-268
Respond(a) ==
    /\ pc = "respond"
    /\ LET r == InvokeWithHistory(store, heap, session_id,
                                  FinalQuestion(context, user_query), a)
       IN /\ store' = r.store
          /\ heap' = r.heap
    /\ turns' = turns + 1
    /\ pc' = "prompt"
    /\ UNCHANGED <<dump_memory_on_exit, session_id>>
    /\ UNCHANGED turnVars
    /\ UNCHANGED exitVars
    /\ UNCHANGED clientVars

InTry == {"prompt", "classify", "dispatch", "context", "respond"}

\* lines 270-278: KeyboardInterrupt raised anywhere inside the try
Interrupt ==
    /\ pc \in InTry
    /\ printed' = TRUE
    /\ IF dump_memory_on_exit
       THEN IF session_id \in DOMAIN store
            THEN /\ file' = [name |-> <<"memory-">> \o session_id \o <<".json">>,
                             data |-> heap[store[session_id]], written |-> TRUE]
                 /\ error' = error
                 /\ pc' = "exited"
            ELSE /\ file' = [name |-> <<"memory-">> \o session_id \o <<".json">>,
                             data |-> <<>>, written |-> FALSE]
                 /\ error' = "KeyError"
                 /\ pc' = "crashed"
       ELSE /\ UNCHANGED <<file, error>>
            /\ pc' = "exited"
    /\ UNCHANGED <<dump_memory_on_exit, session_id, store, heap, turns>>
    /\ UNCHANGED turnVars
    /\ UNCHANGED clientVars

Next ==
    \/ \E q \in Queries : ReadQuery(q)
    \/ \E c \in ClassificationOutputs : Classify(c)
    \/ Dispatch
    \/ \E o \in BackendOutcomes : QueryBranch(o)
    \/ OtherBranch
    \/ \E a \in Answers : Respond(a)
    \/ Interrupt

Spec == Init /\ [][Next]_vars

\* ---------------------------------------------- the session store on its own
\* a caller of get_session_history(sid) keeps the object of its first call
StoreGet(sid) ==
    /\ LET g == get_session_history(store, heap, sid)
       IN /\ store' = g.store
          /\ heap' = g.heap
          /\ held' = IF held[sid] = 0 THEN [held EXCEPT ![sid] = g.ret] ELSE held
    /\ UNCHANGED <<pc, dump_memory_on_exit, session_id, turns, log>>
    /\ UNCHANGED turnVars
    /\ UNCHANGED exitVars

\* history.add_message(m) on the object held for sid
StoreAppend(sid, m) ==
    /\ held[sid] # 0
    /\ Len(log[sid]) < MaxAppends
    /\ heap' = [heap EXCEPT ![held[sid]] = Append(@, m)]
    /\ log' = [log EXCEPT ![sid] = Append(@, m)]
    /\ UNCHANGED <<pc, dump_memory_on_exit, session_id, store, turns, held>>
    /\ UNCHANGED turnVars
    /\ UNCHANGED exitVars

StoreMessages == {Human(q) : q \in Queries} \cup {AI(a) : a \in Answers}

NextStore ==
    \/ \E sid \in SessionIds : StoreGet(sid)
    \/ \E sid \in SessionIds, m \in StoreMessages : StoreAppend(sid, m)

SpecStore == Init /\ [][NextStore]_vars

\* ------------------------------------------------------------------ claims
\* the history of the running session, empty while the store has none
History == IF session_id \in DOMAIN store THEN heap[store[session_id]] ELSE <<>>

IntentCodes == {"Q", "M", "F", "I"}
AfterDispatch == {"context", "respond", "prompt"}
AfterContext == {"respond", "prompt"}

\* C1: a non-empty classification output whose first character is none of Q, M,
\* F, I selects the Invalid handler (type INVALID, the fixed invalid-query
\* context) and no exception leaves the classification-parsing step.
C1_UnknownCodeSelectsInvalid ==
    (Len(classification) > 0 /\ classification[1] \notin IntentCodes) =>
        /\ error = "none"
        /\ pc # "crashed"
        /\ pc \in AfterDispatch =>
              /\ response_handler = "InvalidResponseHandler"
              /\ HandlerType(response_handler) = "INVALID"
        /\ pc \in AfterContext => context = <<"Context: user provided invalid query.">>

C1_Witness ==
    /\ pc = "respond"
    /\ classification = <<"x", " ", "x">>
    /\ context = <<"Context: user provided invalid query.">>

\* C2: an empty classification output degrades to the Invalid intent: the
\* Invalid handler is selected, the context is the fixed invalid-query string,
\* no error is raised and the turn goes on to the final model call.
C2_EmptyDegradesToInvalid ==
    (Len(classification) = 0 /\ session_id \in DOMAIN store) =>
        /\ error = "none"
        /\ pc # "crashed"
        /\ pc \in AfterDispatch => response_handler = "InvalidResponseHandler"
        /\ pc \in AfterContext => context = <<"Context: user provided invalid query.">>

\* C3: when the backend call of a Query turn raises, the context is the query
\* template around the fixed apology, no exception leaves the turn, and the turn
\* goes on to the final model call and back to the prompt.
C3_BackendFailureBecomesApology ==
    db_raised =>
        /\ error = "none"
        /\ pc \in {"respond", "prompt", "exited"}
        /\ response_handler = "QueryResponseHandler"
        /\ backend_calls = 1
        /\ context = <<"Context: database response was ",
                       "I'm sorry, I couldn't find any results.">>
        /\ pc = "prompt" =>
              /\ Len(History) >= 2
              /\ History[Len(History) - 1] =
                     Human(<<"Context: database response was ",
                             "I'm sorry, I couldn't find any results.">>
                           \o Instruction \o user_query)
              /\ History[Len(History)].type = "ai"

C3_Witness == db_raised /\ pc = "prompt" /\ turns = 1

TheMatrix == <<"T", "h", "e", " ", "M", "a", "t", "r", "i", "x">>

\* C4 as stated: for "Q  The Matrix" the Query handler is selected and the
\* backend is called with " The Matrix <original query>"; the context holds the
\* backend's result.
C4_MatrixQuestionAsStated ==
    (pc = "respond" /\ classification = MatrixOutput) =>
        /\ response_handler = "QueryResponseHandler"
        /\ backend_arg = <<" ">> \o TheMatrix \o <<" ">> \o user_query
        /\ ~db_raised =>
              /\ db_response.result \in DbResults
              /\ context = <<"Context: database response was ">> \o db_response.result

\* C4 as amended: for "Q  The Matrix" the Query handler is selected and the
\* backend is called with "The Matrix <original query>" (no leading space: the
\* characters from index 3 on, a space, the original query); the context holds
\* the backend's result.
C4_MatrixQuestion ==
    (pc = "respond" /\ classification = MatrixOutput) =>
        /\ response_handler = "QueryResponseHandler"
        /\ backend_calls = 1
        /\ backend_arg = TheMatrix \o <<" ">> \o user_query
        /\ ~db_raised =>
              /\ db_response.result \in DbResults
              /\ context = <<"Context: database response was ">> \o db_response.result

C4_Witness ==
    /\ pc = "respond"
    /\ classification = MatrixOutput
    /\ ~db_raised
    /\ backend_calls = 1
    /\ context = <<"Context: database response was ", "The Wachowskis">>

\* C5: in a turn the backend is invoked once when the selected intent is Query
\* and never when it is Memory, Feedback or Invalid, and for those three the
\* context is the intent's fixed string whatever the query and the backend.
C5_BackendOnlyForQuery ==
    /\ backend_calls \in {0, 1}
    /\ pc \in {"classify", "dispatch", "context"} => backend_calls = 0
    /\ (pc = "respond" \/ (pc = "prompt" /\ turns > 0)) =>
          /\ response_handler = "QueryResponseHandler" => backend_calls = 1
          /\ response_handler = "MemoryResponseHandler" =>
                /\ backend_calls = 0
                /\ context = <<"Context: respond using memory history.">>
          /\ response_handler = "FeedbackResponseHandler" =>
                /\ backend_calls = 0
                /\ context = <<"Context: user provided feedback.">>
          /\ response_handler = "InvalidResponseHandler" =>
                /\ backend_calls = 0
                /\ context = <<"Context: user provided invalid query.">>

C5_Witness ==
    /\ pc = "respond"
    /\ turns = 1
    /\ response_handler = "FeedbackResponseHandler"
    /\ backend_calls = 0
    /\ backend_arg # <<>>

\* the characters of content from Python index 3 on
FromIndex3(content) == [i \in 1..(Len(content) - 3) |-> content[i + 3]]

\* C10: in a Query turn the auxiliary text is the classification output from
\* index 3 on when it is longer than 3 characters and empty otherwise, and the
\* backend is called with auxiliary text, a space and the original query; a
\* Query output of 1 to 3 characters gives " " + query and no error.
C10_AuxiliaryText ==
    (pc = "respond" /\ response_handler = "QueryResponseHandler") =>
        /\ error = "none"
        /\ Len(classification) > 3 =>
              backend_arg = FromIndex3(classification) \o <<" ">> \o user_query
        /\ Len(classification) \in 1..3 => backend_arg = <<" ">> \o user_query

C10_Witness ==
    /\ pc = "respond"
    /\ classification = <<"Q", " ", "x">>
    /\ backend_calls = 1
    /\ backend_arg = <<" ">> \o user_query

\* C6 as stated: with the dump enabled, an interrupt handled at any point of the
\* run (the first prompt included) prints the farewell, writes the session's
\* whole history to the file named by the session id and exits with no error.
C6_InterruptDumpsAndExitsCleanly ==
    (dump_memory_on_exit /\ printed) =>
        /\ pc = "exited"
        /\ error = "none"
        /\ file = [name |-> <<"memory-">> \o session_id \o <<".json">>,
                   data |-> History, written |-> TRUE]

Contexts ==
    {<<"Context: respond using memory history.">>,
     <<"Context: user provided feedback.">>,
     <<"Context: user provided invalid query.">>}
        \cup {<<"Context: database response was ">> \o r :
                r \in DbResults \cup {<<"I'm sorry, I couldn't find any results.">>}}

\* messages 4i-3 .. 4i of h are what one whole turn records
IsTurnRecord(h, i) ==
    \E q \in Queries :
        /\ h[4 * i - 3] = Human(<<"Classify query:">> \o q)
        /\ h[4 * i - 2].type = "ai"
        /\ h[4 * i - 2].content \in ClassificationOutputs
        /\ \E ctx \in Contexts : h[4 * i - 1] = Human(ctx \o Instruction \o q)
        /\ h[4 * i].type = "ai"
        /\ h[4 * i].content \in Answers

ClassifyExchanges(h) ==
    Cardinality({i \in 1..Len(h) :
                   h[i].type = "human" /\ h[i].content[1] = "Classify query:"})
AnswerExchanges(h) ==
    Cardinality({i \in 1..Len(h) :
                   /\ h[i].type = "human"
                   /\ \E k \in 1..Len(h[i].content) : <<h[i].content[k]>> = Instruction})

C8_QueryAnswerPairs ==
    pc = "prompt" =>
        /\ Len(History) = 2 * turns
        /\ \A i \in 1..turns :
              /\ History[2 * i - 1].type = "human"
              /\ History[2 * i - 1].content \in Queries
              /\ History[2 * i].type = "ai"
              /\ History[2 * i].content \in Answers

C8_Records ==
    pc = "prompt" =>
        /\ Len(History) = 4 * turns
        /\ \A i \in 1..turns : IsTurnRecord(History, i)
        /\ turns > 0 =>
              /\ History[4 * turns - 3] = Human(<<"Classify query:">> \o user_query)
              /\ History[4 * turns - 2] = AI(classification)
              /\ History[4 * turns - 1] = Human(context \o Instruction \o user_query)

C8_Grows ==
    /\ Len(History') >= Len(History)
    /\ SubSeq(History', 1, Len(History)) = History

\* C8 as amended: each completed turn appends four messages, the human
\* "Classify query:" + query, the classification output (assistant), the human
\* context + instruction + query, and the answer (assistant); after k turns the
\* history is those k groups in chronological order and nothing else.
C8_TurnRecords == []C8_Records /\ [][C8_Grows]_vars

C8_Witness ==
    /\ pc = "prompt"
    /\ turns = 2
    /\ Len(History) = 8
    /\ History[1].content # History[5].content

\* C9: get_session_history creates an empty history on the first call for an id
\* and returns that same object afterwards (no replacement, no second object);
\* after N appends a later call sees exactly those N entries in order, and no
\* entry of one id shows under another.
C9_SessionStore ==
    /\ Len(heap) = Cardinality(DOMAIN store)
    /\ \A a \in DOMAIN store, b \in DOMAIN store : store[a] = store[b] => a = b
    /\ \A sid \in SessionIds :
          /\ held[sid] # 0 <=> sid \in DOMAIN store
          /\ sid \in DOMAIN store =>
                /\ store[sid] = held[sid]
                /\ get_session_history(store, heap, sid).ret = held[sid]
                /\ heap[store[sid]] = log[sid]
          /\ sid \notin DOMAIN store => log[sid] = <<>>

C9_Witness ==
    \E a \in SessionIds, b \in SessionIds :
        /\ a # b
        /\ Len(log[a]) = 2
        /\ log[a][1] # log[a][2]
        /\ Len(log[b]) = 1
        /\ heap[store[a]] = log[a]
        /\ heap[store[b]] = log[b]

====
